---- MODULE Spec2Model ----
(***************************************************************************)
(* Event streaming of the SimpleEmailAPI Go SDK (src/events.go): the       *)
(* orchestration loop eventStreamer.run, one session eventStreamer.stream, *)
(* the dispatcher dispatchEvent and the acknowledgment batcher queueAck /  *)
(* flushAcks / flushAcksLocked with its time.AfterFunc flush timer.        *)
(*                                                                         *)
(* Durations are counted in seconds (initialDelay = 1 * time.Second).      *)
(* The mutex pendingAcksMu makes queueAck, flushAcks and the timer         *)
(* callback atomic with respect to each other, so each is one step.        *)
(* The transport (StreamEvents, Receive, AckEvents), the caller's cancel   *)
(* and the user's callbacks are the environment: their outcomes are        *)
(* chosen with \E.                                                         *)
(*                                                                         *)
(* The structured errors of src/errors.go, ParseError and Error.IsCategory,*)
(* are pure functions: they are operators here, applied by the steps of a  *)
(* caller under ErrSpec to the errors ErrInit draws.                       *)
(***************************************************************************)
EXTENDS Integers, Sequences, FiniteSets, TLC

\* ---------------------------------------------------------------- bounds
\* Business events with an identifier delivered in a run that fills a batch.
MaxEvents == 11
\* Business events with an identifier delivered in any other run.
MaxFewEvents == 2
\* Heartbeats and events without identifier delivered in one run.
MaxOthers == 1
\* Sessions opened in a run that exercises the backoff schedule.
MaxSessions == 7
\* Timer callbacks that may be waiting for the mutex at once.
MaxFiredCallbacks == 2
\* AckEvents calls of a run that the transport answers late or not at all.
MaxSlowAcks == 2
\* The largest error code of the run of codes IsCategory is applied to.
MaxCode == 1000
\* Details attached to a Connect error handed to ParseError.
MaxDetails == 2

\* ----------------------------------------------------- program constants
initialDelay == 1
maxDelay == 30
backoffMultipler == 2
ackBatchSize == 10
ErrCodeInternal == 900
ErrCodeUnspecified == 0
\* ErrorCode is an int32.
MaxInt32 == 2147483647
MinInt32 == -MaxInt32 - 1

AckModeAuto == "auto"
AckModeManual == "manual"

\* The payload variants of v1.Event that dispatchEvent switches on.
Variants == {"EmailSent", "EmailDelivered", "EmailBounced", "EmailComplained",
             "EmailRejected", "EmailDelayed", "EmailReplied", "EmailFailed"}

\* What event.Payload can hold: a known variant, a variant this SDK does
\* not know, or nothing.
Payloads == Variants \cup {"unknown", "none"}

\* The type switch with the cases of EmailBounced and EmailComplained
\* calling each other's handler.
HandlerFor_Swapped(payload) ==
    CASE payload = "EmailSent"       -> "OnSent"
      [] payload = "EmailDelivered"  -> "OnDelivered"
      [] payload = "EmailBounced"    -> "OnComplained"
      [] payload = "EmailComplained" -> "OnBounced"
      [] payload = "EmailRejected"   -> "OnRejected"
      [] payload = "EmailDelayed"    -> "OnDelayed"
      [] payload = "EmailReplied"    -> "OnReplied"
      [] payload = "EmailFailed"     -> "OnFailed"
      [] OTHER                       -> "none"

\* The EventHandlers field that the type switch selects for a payload.
HandlerFor(payload) ==
    CASE payload = "EmailSent"       -> "OnSent"
      [] payload = "EmailDelivered"  -> "OnDelivered"
      [] payload = "EmailBounced"    -> "OnBounced"
      [] payload = "EmailComplained" -> "OnComplained"
      [] payload = "EmailRejected"   -> "OnRejected"
      [] payload = "EmailDelayed"    -> "OnDelayed"
      [] payload = "EmailReplied"    -> "OnReplied"
      [] payload = "EmailFailed"     -> "OnFailed"
      [] OTHER                       -> "none"

VariantHandlers == {HandlerFor(v) : v \in Variants}

NoEvent == [type |-> "none", payload |-> "none", id |-> 0]

Min(a, b) == IF a < b THEN a ELSE b

VARIABLES
    args,           \* the EventHandlers the caller passes to OnReceive
    handlers,       \* s.handlers: [set, OnError, AckMode], and OnErrorPanics:
                    \* the function in OnError is one that can panic
    pc,             \* where the goroutine running run() stands
    cancelled,      \* s.ctx is done
    currentDelay,   \* run's local currentDelay
    err,            \* the error stream() returned: "nil", "open", "recv", "ctx"
    streamOpen,     \* a stream returned by StreamEvents is not yet closed
    cur,            \* the event stream.Msg() returned
    pendingAcks,    \* s.pendingAcks
    ackTimer,       \* s.ackTimer: "nil" or "set"
    timerArmed,     \* a time.AfterFunc timer is scheduled, not stopped, not fired
    firedCb,        \* timer callbacks that fired and wait for the mutex
    serverPayloads, \* the payloads the server sends in this run
    eventsLeft,     \* business events with an identifier still to deliver
    othersLeft,     \* heartbeats and events without identifier still to deliver
    sessionsLeft,   \* sessions the transport may still open before cancellation
    nextId,         \* the identifier the server gives its next event
    calls,          \* callbacks invoked by the latest dispatchEvent or report
    panicked,       \* the callback invoked for cur panicked
    dispatched,     \* dispatchEvent has returned for cur
    sent,           \* EventIds of the AckEvents request the latest step started
    started,        \* the latest step started a goroutine that calls AckEvents
    acked,          \* EventIds of all AckEvents requests, in the order started
    queuedIds,      \* identifiers passed to queueAck
    retries,        \* backoff sleeps started
    opensAfterCancel, \* StreamEvents calls started while s.ctx was done
    inFlight,       \* EventIds of the AckEvents calls started and not returned
    slowAcksLeft,   \* AckEvents calls the transport will still answer late;
                    \* it answers the others at once, with success
    ackLog,         \* the AckEvents calls that returned late: [ids, outcome,
                    \* afterCancel]
    errPc,          \* where a caller of ParseError and IsCategory stands
    perr,           \* the error handed to ParseError
    parsed,         \* what ParseError returned, or the *Error the caller holds
    category,       \* the category name handed to IsCategory
    isCat           \* what IsCategory returned

vars == <<args, handlers, pc, cancelled, currentDelay, err, streamOpen, cur,
          pendingAcks, ackTimer, timerArmed, firedCb, serverPayloads,
          eventsLeft, othersLeft, sessionsLeft, nextId, calls,
          panicked, dispatched, sent, started, acked, queuedIds, retries,
          opensAfterCancel, inFlight, slowAcksLeft, ackLog, errPc, perr, parsed, category, isCat>>

ackVars == <<pendingAcks, ackTimer, timerArmed, acked, queuedIds>>
loopVars == <<pc, currentDelay, err, streamOpen, cur, calls, panicked,
             dispatched, retries>>
envVars == <<serverPayloads, eventsLeft, othersLeft, sessionsLeft, nextId>>
errVars == <<errPc, perr, parsed, category, isCat>>
callVars == <<inFlight, slowAcksLeft, ackLog>>
streamVars == <<args, handlers, pc, cancelled, currentDelay, err, streamOpen,
               cur, pendingAcks, ackTimer, timerArmed, firedCb, serverPayloads,
               eventsLeft, othersLeft, sessionsLeft, nextId, calls, panicked,
               dispatched, sent, started, acked, queuedIds, retries,
               opensAfterCancel, inFlight, slowAcksLeft, ackLog>>

Range(s) == {s[i] : i \in 1..Len(s)}

\* ------------------------------------------------------------ AckBatcher
\* The fields guarded by pendingAcksMu, with what the transport has seen.
\* sent is empty, and started false, until the step at hand starts a request.
AckState ==
    [pendingAcks |-> pendingAcks, ackTimer |-> ackTimer,
     timerArmed |-> timerArmed, sent |-> <<>>, started |-> FALSE,
     acked |-> acked, queuedIds |-> queuedIds]

\* A step that leaves the batcher and the AckEvents calls alone.
NoAck ==
    /\ sent' = <<>>
    /\ started' = FALSE
    /\ UNCHANGED ackVars /\ UNCHANGED callVars /\ UNCHANGED errVars

\* A step of the batcher: the fields take the values of st, and the
\* goroutine flushAcksLocked started, if any, is under way with its
\* AckEvents call.
SetAck(st) ==
    /\ pendingAcks' = st.pendingAcks
    /\ ackTimer' = st.ackTimer
    /\ timerArmed' = st.timerArmed
    /\ sent' = st.sent
    /\ started' = st.started
    /\ acked' = st.acked
    /\ queuedIds' = st.queuedIds
    /\ IF st.started /\ slowAcksLeft > 0
       THEN /\ inFlight' = inFlight \cup {st.sent}
            /\ slowAcksLeft' = slowAcksLeft - 1
       ELSE UNCHANGED <<inFlight, slowAcksLeft>>
    /\ UNCHANGED <<ackLog, errVars>>

\* flushAcksLocked sending the list without swapping it for an empty one.
flushAcksLocked_NoSwap(st) ==
    IF Len(st.pendingAcks) = 0
    THEN st
    ELSE [st EXCEPT
            !.timerArmed = IF st.ackTimer # "nil" THEN FALSE ELSE @,
            !.ackTimer = "nil",
            !.sent = st.pendingAcks,
            !.started = TRUE,
            !.acked = @ \o st.pendingAcks]

\* flushAcksLocked stopping the timer without clearing the field.
flushAcksLocked_KeepTimer(st) ==
    IF Len(st.pendingAcks) = 0
    THEN st
    ELSE [st EXCEPT
            !.timerArmed = IF st.ackTimer # "nil" THEN FALSE ELSE @,
            !.pendingAcks = <<>>,
            !.sent = st.pendingAcks,
            !.started = TRUE,
            !.acked = @ \o st.pendingAcks]

\* flushAcksLocked without the test of the empty list.
flushAcksLocked_NoEmptyCheck(st) ==
    [st EXCEPT
        !.timerArmed = IF st.ackTimer # "nil" THEN FALSE ELSE @,
        !.ackTimer = "nil",
        !.pendingAcks = <<>>,
        !.sent = st.pendingAcks,
        !.started = TRUE,
        !.acked = @ \o st.pendingAcks]

\* flushAcksLocked: nothing when the list is empty; else stop and forget the
\* timer, swap the list for an empty one and start the goroutine that sends
\* AckEvents with the swapped-out list. Timer.Stop on a timer that has fired
\* does not call its callback back.
flushAcksLocked(st) ==
    IF Len(st.pendingAcks) = 0
    THEN st
    ELSE [st EXCEPT
            !.timerArmed = IF st.ackTimer # "nil" THEN FALSE ELSE @,
            !.ackTimer = "nil",
            !.pendingAcks = <<>>,
            !.sent = st.pendingAcks,
            !.started = TRUE,
            !.acked = @ \o st.pendingAcks]

\* flushAcks: flushAcksLocked under the mutex.
flushAcks(st) == flushAcksLocked(st)

\* queueAck flushing only once the list is longer than ackBatchSize.
queueAck_FlushAboveSize(st, eventID) ==
    LET app == [st EXCEPT !.pendingAcks = Append(@, eventID),
                          !.queuedIds = @ \cup {eventID}]
    IN  IF Len(app.pendingAcks) > ackBatchSize
        THEN flushAcksLocked(app)
        ELSE IF app.ackTimer = "nil"
             THEN [app EXCEPT !.ackTimer = "set", !.timerArmed = TRUE]
             ELSE app

\* queueAck that never schedules the flush timer.
queueAck_NoTimer(st, eventID) ==
    LET app == [st EXCEPT !.pendingAcks = Append(@, eventID),
                          !.queuedIds = @ \cup {eventID}]
    IN  IF Len(app.pendingAcks) >= ackBatchSize
        THEN flushAcksLocked(app)
        ELSE app

\* queueAck putting the identifier at the head of the list.
queueAck_Prepend(st, eventID) ==
    LET app == [st EXCEPT !.pendingAcks = <<eventID>> \o @,
                          !.queuedIds = @ \cup {eventID}]
    IN  IF Len(app.pendingAcks) >= ackBatchSize
        THEN flushAcksLocked(app)
        ELSE IF app.ackTimer = "nil"
             THEN [app EXCEPT !.ackTimer = "set", !.timerArmed = TRUE]
             ELSE app

\* queueAck: append; flush at once when the batch is full; else schedule the
\* flush timer unless one is scheduled.
queueAck(st, eventID) ==
    LET app == [st EXCEPT !.pendingAcks = Append(@, eventID),
                          !.queuedIds = @ \cup {eventID}]
    IN  IF Len(app.pendingAcks) >= ackBatchSize
        THEN flushAcksLocked(app)
        ELSE IF app.ackTimer = "nil"
             THEN [app EXCEPT !.ackTimer = "set", !.timerArmed = TRUE]
             ELSE app

\* The timer of time.AfterFunc elapses: its callback starts in a goroutine
\* of its own and waits for the mutex. A panic that ended the goroutine of
\* run() has ended the process, timers included.
TimerFire ==
    /\ pc # "crashed"
    /\ timerArmed
    /\ firedCb < MaxFiredCallbacks
    /\ timerArmed' = FALSE
    /\ firedCb' = firedCb + 1
    /\ sent' = <<>>
    /\ started' = FALSE
    /\ UNCHANGED <<handlers, args, cancelled, loopVars, envVars, pendingAcks,
                   ackTimer, acked, queuedIds, opensAfterCancel, callVars,
                   errVars>>

\* The callback of time.AfterFunc: lock, flushAcksLocked, unlock.
TimerCallback ==
    /\ pc # "crashed"
    /\ firedCb > 0
    /\ firedCb' = firedCb - 1
    /\ SetAck(flushAcksLocked(AckState))
    /\ UNCHANGED <<handlers, args, cancelled, loopVars, envVars, opensAfterCancel>>

\* The goroutine putting the identifiers of a failed call back in the list.
AckReturn_Requeue ==
    /\ pc # "crashed"
    /\ \E ids \in inFlight, outcome \in {"ok", "error", "timeout"} :
          /\ inFlight' = inFlight \ {ids}
          /\ ackLog' = ackLog \cup {[ids |-> ids, outcome |-> outcome,
                                     afterCancel |-> cancelled]}
          /\ pendingAcks' = IF outcome = "ok" THEN pendingAcks
                                              ELSE pendingAcks \o ids
    /\ sent' = <<>>
    /\ started' = FALSE
    /\ UNCHANGED <<handlers, args, cancelled, loopVars, envVars, firedCb,
                   ackTimer, timerArmed, acked, queuedIds, slowAcksLeft,
                   opensAfterCancel, errVars>>

\* The goroutine of flushAcksLocked: AckEvents, under a context of its own
\* with a timeout of 5 s, returns with success, with an error or at the
\* timeout; an error is logged and that is all.
AckReturn ==
    /\ pc # "crashed"
    /\ \E ids \in inFlight, outcome \in {"ok", "error", "timeout"} :
          /\ inFlight' = inFlight \ {ids}
          /\ ackLog' = ackLog \cup {[ids |-> ids, outcome |-> outcome,
                                     afterCancel |-> cancelled]}
    /\ sent' = <<>>
    /\ started' = FALSE
    /\ UNCHANGED <<handlers, args, cancelled, loopVars, envVars, firedCb,
                   ackVars, slowAcksLeft, opensAfterCancel, errVars>>

\* ------------------------------------------------------- EventDispatcher
\* dispatchEvent without the deferred recover: a handler's panic leaves it.
dispatchEvent_NoRecover(h, event, panics, errPanics) ==
    LET hf == HandlerFor(event.payload)
        invoked == hf \in h.set
        failed == invoked /\ panics
    IN  [calls |-> IF invoked
                   THEN <<[cb |-> hf, payload |-> event.payload]>>
                   ELSE <<>>,
         panicked |-> failed,
         escaped |-> failed]

\* dispatchEvent: the type switch picks the handler of the payload's
\* variant and calls it when it is set; the deferred recover turns a panic
\* of that call into OnError(&Error{Code: ErrCodeInternal}) when OnError is
\* set. `panics` is what the called handler does, `errPanics` what OnError
\* does when it is called: a panic of OnError is raised inside the deferred
\* function, after recover(), and nothing recovers it.
dispatchEvent(h, event, panics, errPanics) ==
    LET hf == HandlerFor(event.payload)
        invoked == hf \in h.set
        failed == invoked /\ panics
        reported == failed /\ h.OnError
    IN  [calls |-> (IF invoked
                    THEN <<[cb |-> hf, payload |-> event.payload]>>
                    ELSE <<>>)
                   \o (IF reported
                       THEN <<[cb |-> "OnError", code |-> ErrCodeInternal]>>
                       ELSE <<>>),
         panicked |-> failed,
         escaped |-> reported /\ errPanics]

\* ---------------------------------------------------------- EventStreamer
\* The doubling without the cap at maxDelay.
NextDelay_NoCap(d) == d * backoffMultipler

\* currentDelay after a backoff sleep.
NextDelay(d) ==
    IF d * backoffMultipler > maxDelay THEN maxDelay ELSE d * backoffMultipler

\* OnReceive's defaults for the handlers it is given.
WithDefaults(h) ==
    [h EXCEPT !.AckMode = IF @ = "" THEN AckModeAuto ELSE @]

\* OnReceive: set defaults, build the streamer and start run(), whose first
\* statement sets currentDelay.
OnReceive ==
    /\ pc = "start"
    /\ handlers' = WithDefaults(args)
    /\ currentDelay' = initialDelay
    /\ pc' = "top"
    /\ NoAck
    /\ UNCHANGED <<args, cancelled, err, streamOpen, cur, calls, panicked,
                   dispatched, retries, firedCb, envVars, opensAfterCancel>>

\* The caller cancels the context.
Cancel ==
    /\ ~cancelled
    /\ cancelled' = TRUE
    /\ NoAck
    /\ UNCHANGED <<handlers, args, loopVars, firedCb, envVars,
                   opensAfterCancel>>

\* The top of the loop without its cancellation check.
RunTop_NoCancelCheck ==
    /\ pc = "top"
    /\ NoAck
    /\ pc' = "open"
    /\ UNCHANGED <<handlers, args, cancelled, currentDelay, err, streamOpen,
                   cur, calls, panicked, dispatched, retries, firedCb, envVars,
                   opensAfterCancel>>

\* run, the select at the top of the loop.
RunTop ==
    /\ pc = "top"
    /\ IF cancelled
       THEN /\ SetAck(flushAcks(AckState))
            /\ pc' = "done"
       ELSE /\ NoAck
            /\ pc' = "open"
    /\ UNCHANGED <<handlers, args, cancelled, currentDelay, err, streamOpen, cur,
                   calls, panicked, dispatched, retries, firedCb, envVars,
                   opensAfterCancel>>

\* stream, the StreamEvents call: the transport returns a stream or an error.
StreamOpen ==
    /\ pc = "open"
    /\ sessionsLeft > 0 \/ cancelled
    /\ sessionsLeft' = IF sessionsLeft > 0 THEN sessionsLeft - 1 ELSE 0
    /\ opensAfterCancel' =
          IF cancelled THEN Min(opensAfterCancel + 1, 2) ELSE opensAfterCancel
    /\ \E ok \in BOOLEAN :
          IF ok
          THEN /\ streamOpen' = TRUE
               /\ err' = "nil"
               /\ pc' = "recv"
          ELSE /\ streamOpen' = FALSE
               /\ err' = "open"
               /\ pc' = "post"
    /\ NoAck
    /\ UNCHANGED <<handlers, args, cancelled, currentDelay, cur, calls, panicked,
                   dispatched, retries, firedCb, serverPayloads, eventsLeft,
                   othersLeft, nextId>>

\* The events the transport can deliver next. An identifier is 0 for the
\* empty string; the identifiers of business events are distinct and counted
\* up from 1, those of heartbeats are negative.
NextEvents ==
    {[type |-> t, payload |-> p,
      id |-> IF ~withId THEN 0 ELSE IF t = "heartbeat" THEN -nextId ELSE nextId] :
        t \in {"heartbeat", "event"}, p \in serverPayloads,
        withId \in BOOLEAN}

\* A business event that carries an identifier.
IsPrimary(e) == e.type = "event" /\ e.id # 0

\* stream, one stream.Receive(): the next event, or the end of the stream
\* (cleanly or with an error), on which stream() returns stream.Err() and
\* the deferred stream.Close() runs.
StreamReceive ==
    /\ pc = "recv"
    /\ \/ /\ \E e \in NextEvents :
                /\ IF IsPrimary(e) THEN eventsLeft > 0 ELSE othersLeft > 0
                /\ cur' = e
                /\ eventsLeft' = IF IsPrimary(e) THEN eventsLeft - 1
                                                 ELSE eventsLeft
                /\ othersLeft' = IF IsPrimary(e) THEN othersLeft
                                                 ELSE othersLeft - 1
                /\ nextId' = IF e.id > 0 THEN nextId + 1 ELSE nextId
          /\ pc' = "check"
          /\ UNCHANGED <<err, streamOpen>>
       \/ /\ \E e \in {"nil", "recv"} : err' = e
          /\ streamOpen' = FALSE
          /\ cur' = NoEvent
          /\ pc' = "post"
          /\ UNCHANGED <<eventsLeft, othersLeft, nextId>>
    /\ calls' = <<>>
    /\ panicked' = FALSE
    /\ dispatched' = FALSE
    /\ NoAck
    /\ UNCHANGED <<handlers, args, cancelled, currentDelay,
                   retries, firedCb, serverPayloads, sessionsLeft,
                   opensAfterCancel>>

\* The head of the receive loop's body without the heartbeat skip.
StreamCheck_NoHeartbeatSkip ==
    /\ pc = "check"
    /\ IF cancelled
       THEN /\ err' = "ctx"
            /\ streamOpen' = FALSE
            /\ cur' = NoEvent
            /\ pc' = "post"
       ELSE /\ pc' = "dispatch"
            /\ UNCHANGED <<err, streamOpen, cur>>
    /\ NoAck
    /\ UNCHANGED <<handlers, args, cancelled, currentDelay, calls, panicked,
                   dispatched, retries, firedCb, envVars, opensAfterCancel>>

\* The head of the receive loop's body returning ctx.Err() with no Close.
StreamCheck_NoClose ==
    /\ pc = "check"
    /\ IF cancelled
       THEN /\ err' = "ctx"
            /\ cur' = NoEvent
            /\ pc' = "post"
            /\ UNCHANGED streamOpen
       ELSE /\ pc' = IF cur.type = "heartbeat" THEN "recv" ELSE "dispatch"
            /\ UNCHANGED <<err, streamOpen, cur>>
    /\ NoAck
    /\ UNCHANGED <<handlers, args, cancelled, currentDelay, calls, panicked,
                   dispatched, retries, firedCb, envVars, opensAfterCancel>>

\* stream, the head of the receive loop's body: return ctx.Err() when the
\* context is done, skip a heartbeat, else go on to dispatch.
StreamCheck ==
    /\ pc = "check"
    /\ IF cancelled
       THEN /\ err' = "ctx"
            /\ streamOpen' = FALSE
            /\ cur' = NoEvent
            /\ pc' = "post"
       ELSE /\ pc' = IF cur.type = "heartbeat" THEN "recv" ELSE "dispatch"
            /\ UNCHANGED <<err, streamOpen, cur>>
    /\ NoAck
    /\ UNCHANGED <<handlers, args, cancelled, currentDelay, calls, panicked,
                   dispatched, retries, firedCb, envVars, opensAfterCancel>>

\* stream, s.dispatchEvent(event). A panic that leaves dispatchEvent
\* unwinds stream(), whose deferred stream.Close() runs, and run(), and ends
\* the goroutine and with it the process. Whether the called handler and
\* OnError panic is theirs to choose at each call.
StreamDispatch ==
    /\ pc = "dispatch"
    /\ \E panics, errPanics \in BOOLEAN :
          /\ panics => HandlerFor(cur.payload) \in handlers.set
          /\ errPanics => panics /\ handlers.OnError /\ handlers.OnErrorPanics
          /\ LET r == dispatchEvent(handlers, cur, panics, errPanics)
             IN  /\ calls' = r.calls
                 /\ panicked' = r.panicked
                 /\ dispatched' = ~r.escaped
                 /\ streamOpen' = IF r.escaped THEN FALSE ELSE streamOpen
                 /\ pc' = IF r.escaped THEN "crashed" ELSE "ack"
    /\ NoAck
    /\ UNCHANGED <<handlers, args, cancelled, currentDelay, err, cur,
                   retries, firedCb, serverPayloads, eventsLeft, othersLeft,
                   sessionsLeft, nextId, opensAfterCancel>>

\* The auto-ack condition without the test of the identifier.
ShouldAck_IgnoreId(h, event) == h.AckMode = AckModeAuto

\* The auto-ack condition without the test of the mode.
ShouldAck_IgnoreMode(h, event) == event.id # 0

\* Whether stream() queues the event's identifier after dispatching it.
ShouldAck(h, event) == h.AckMode = AckModeAuto /\ event.id # 0

\* stream, the auto-ack after the dispatch, then back to stream.Receive().
StreamAck ==
    /\ pc = "ack"
    /\ IF ShouldAck(handlers, cur)
       THEN SetAck(queueAck(AckState, cur.id))
       ELSE NoAck
    /\ pc' = "recv"
    /\ UNCHANGED <<handlers, args, cancelled, currentDelay, err, streamOpen,
                   cur, calls, panicked, dispatched, retries, firedCb,
                   envVars, opensAfterCancel>>

\* The post-session checkpoint returning without the flush.
RunPost_NoFlush ==
    /\ pc = "post"
    /\ NoAck
    /\ pc' = IF cancelled THEN "done" ELSE "report"
    /\ UNCHANGED <<handlers, args, cancelled, currentDelay, err, streamOpen,
                   cur, calls, panicked, dispatched, retries, firedCb, envVars,
                   opensAfterCancel>>

\* run, the select after stream() returned.
RunPost ==
    /\ pc = "post"
    /\ IF cancelled
       THEN /\ SetAck(flushAcks(AckState))
            /\ pc' = "done"
       ELSE /\ NoAck
            /\ pc' = "report"
    /\ UNCHANGED <<handlers, args, cancelled, currentDelay, err, streamOpen, cur,
                   calls, panicked, dispatched, retries, firedCb, envVars,
                   opensAfterCancel>>

\* The report without the test of the error.
RunReport_ReportNil ==
    /\ pc = "report"
    /\ calls' = IF handlers.OnError
                THEN <<[cb |-> "OnError", err |-> err]>>
                ELSE <<>>
    /\ pc' = "flush"
    /\ NoAck
    /\ UNCHANGED <<handlers, args, cancelled, currentDelay, err, streamOpen, cur,
                   panicked, dispatched, retries, firedCb, envVars,
                   opensAfterCancel>>

\* run, the report of the session's error through OnError. run() has no
\* recover: a panic of OnError ends the goroutine and with it the process.
RunReport ==
    /\ pc = "report"
    /\ calls' = IF err # "nil" /\ handlers.OnError
                THEN <<[cb |-> "OnError", err |-> err]>>
                ELSE <<>>
    /\ \E errPanics \in BOOLEAN :
          /\ errPanics => err # "nil" /\ handlers.OnError /\ handlers.OnErrorPanics
          /\ pc' = IF errPanics THEN "crashed" ELSE "flush"
    /\ NoAck
    /\ UNCHANGED <<handlers, args, cancelled, currentDelay, err, streamOpen, cur,
                   panicked, dispatched, retries, firedCb, envVars,
                   opensAfterCancel>>

\* run, the flush before sleeping; the backoff sleep starts.
RunFlush ==
    /\ pc = "flush"
    /\ SetAck(flushAcks(AckState))
    /\ retries' = retries + 1
    /\ pc' = "sleep"
    /\ UNCHANGED <<handlers, args, cancelled, currentDelay, err, streamOpen, cur,
                   calls, panicked, dispatched, firedCb, envVars,
                   opensAfterCancel>>

\* The backoff as a plain sleep of currentDelay.
RunSleep_Uninterruptible ==
    /\ pc = "sleep"
    /\ currentDelay' = NextDelay(currentDelay)
    /\ pc' = "top"
    /\ NoAck
    /\ UNCHANGED <<handlers, args, cancelled, err, streamOpen, cur, calls, panicked,
                   dispatched, retries, firedCb, envVars, opensAfterCancel>>

\* run, the backoff select: return when the context is done, or wake after
\* currentDelay and double it up to maxDelay. With both ready Go picks either.
RunSleep ==
    /\ pc = "sleep"
    /\ \/ /\ cancelled
          /\ pc' = "done"
          /\ UNCHANGED currentDelay
       \/ /\ currentDelay' = NextDelay(currentDelay)
          /\ pc' = "top"
    /\ NoAck
    /\ UNCHANGED <<handlers, args, cancelled, err, streamOpen, cur, calls, panicked,
                   dispatched, retries, firedCb, envVars, opensAfterCancel>>

\* ----------------------------------------------------------------- runs
\* The handler sets a run starts from: none, all, and each single handler
\* set or unset against the others.
HandlerSets ==
    {{}, VariantHandlers}
      \cup {{h} : h \in VariantHandlers}
      \cup {VariantHandlers \ {h} : h \in VariantHandlers}

AckModes == {"", AckModeAuto, AckModeManual}

\* The handler configurations of the short runs: every handler set with
\* OnError set and the default AckMode, and every OnError and AckMode with
\* all handlers or none.
HandlerConfigs ==
    [set : HandlerSets, OnError : {TRUE}, AckMode : {""},
     OnErrorPanics : {FALSE}]
      \cup [set : {{}, VariantHandlers}, OnError : BOOLEAN, AckMode : AckModes,
            OnErrorPanics : {FALSE}]

\* Every handler configuration and every payload, on a short run.
DispatchRuns ==
    [handlers : HandlerConfigs, payloads : {Payloads},
     events : {MaxFewEvents}, others : {MaxOthers}, sessions : {1},
     slowAcks : {0}]

\* Runs long enough in events to fill a batch.
BatchRuns ==
    [handlers : {[set |-> {"OnDelivered", "OnBounced"}, OnError |-> TRUE,
                  AckMode |-> AckModeAuto, OnErrorPanics |-> FALSE]},
     payloads : {{"EmailDelivered", "EmailSent"}},
     events : {MaxEvents}, others : {MaxOthers}, sessions : {1},
     slowAcks : {0}]

\* Runs long enough in sessions to reach the cap of the backoff.
BackoffRuns ==
    [handlers : {[set |-> {"OnDelivered", "OnBounced"}, OnError |-> TRUE,
                  AckMode |-> AckModeAuto, OnErrorPanics |-> FALSE]},
     payloads : {{"EmailDelivered", "EmailSent"}},
     events : {MaxFewEvents}, others : {0}, sessions : {MaxSessions},
     slowAcks : {0}]

\* Short runs whose OnError is a function that can panic.
OnErrorPanicRuns ==
    [handlers : {[set |-> {"OnDelivered", "OnBounced"}, OnError |-> TRUE,
                  AckMode |-> AckModeAuto, OnErrorPanics |-> TRUE]},
     payloads : {{"EmailDelivered", "EmailSent"}},
     events : {MaxFewEvents}, others : {0}, sessions : {1}, slowAcks : {0}]

\* Short runs in which the transport answers AckEvents calls late, with
\* success, with an error or not before the timeout.
SlowAckRuns ==
    [handlers : {[set |-> {"OnDelivered", "OnBounced"}, OnError |-> TRUE,
                  AckMode |-> AckModeAuto, OnErrorPanics |-> FALSE]},
     payloads : {{"EmailDelivered", "EmailSent"}},
     events : {MaxFewEvents}, others : {0}, sessions : {1},
     slowAcks : {MaxSlowAcks}]

InitOf(r) ==
    /\ args = r.handlers
    /\ handlers = r.handlers
    /\ pc = "start"
    /\ cancelled = FALSE
    /\ currentDelay = 0
    /\ err = "nil"
    /\ streamOpen = FALSE
    /\ cur = NoEvent
    /\ pendingAcks = <<>>
    /\ ackTimer = "nil"
    /\ timerArmed = FALSE
    /\ firedCb = 0
    /\ serverPayloads = r.payloads
    /\ eventsLeft = r.events
    /\ othersLeft = r.others
    /\ sessionsLeft = r.sessions
    /\ nextId = 1
    /\ calls = <<>>
    /\ panicked = FALSE
    /\ dispatched = FALSE
    /\ sent = <<>>
    /\ started = FALSE
    /\ acked = <<>>
    /\ queuedIds = {}
    /\ retries = 0
    /\ opensAfterCancel = 0
    /\ inFlight = {}
    /\ slowAcksLeft = r.slowAcks
    /\ ackLog = {}

\* No error is being parsed while the streamer runs.
NoError == [kind |-> "none"]

ErrIdle ==
    /\ errPc = "idle"
    /\ perr = NoError
    /\ parsed = NoError
    /\ category = ""
    /\ isCat = FALSE

Init ==
    /\ \E r \in DispatchRuns \cup BatchRuns \cup BackoffRuns
                 \cup OnErrorPanicRuns \cup SlowAckRuns : InitOf(r)
    /\ ErrIdle

Next ==
    \/ OnReceive
    \/ Cancel
    \/ RunTop
    \/ StreamOpen
    \/ StreamReceive
    \/ StreamCheck
    \/ StreamDispatch
    \/ StreamAck
    \/ RunPost
    \/ RunReport
    \/ RunFlush
    \/ RunSleep
    \/ TimerFire
    \/ TimerCallback
    \/ AckReturn

Spec == Init /\ [][Next]_vars

\* The runs that use the batcher at length.
FairInit ==
    (\E r \in BatchRuns \cup BackoffRuns \cup SlowAckRuns : InitOf(r)) /\ ErrIdle

\* The Go runtime runs a timer that is due and schedules the goroutine of
\* its callback, which gets the mutex once its holder unlocks; nothing makes
\* the transport deliver, the caller cancel or a session end.
FairSpec ==
    FairInit /\ [][Next]_vars /\ WF_vars(TimerFire) /\ WF_vars(TimerCallback)

\* The steps of the goroutine that runs run().
LoopStep ==
    \/ RunTop
    \/ StreamOpen
    \/ StreamReceive
    \/ StreamCheck
    \/ StreamDispatch
    \/ StreamAck
    \/ RunPost
    \/ RunReport
    \/ RunFlush
    \/ RunSleep

\* Once the context is done the goroutine of run() goes on: the scheduler
\* runs it, the transport's StreamEvents and Receive return on a context
\* that is done, the callbacks return, and a select with a ready case takes
\* one. Before that nothing makes Receive return.
TermSpec == FairInit /\ [][Next]_vars /\ WF_vars(cancelled /\ LoopStep)

\* ------------------------------------------------------- StructuredError
\* connect.Code: the status of a Connect error; CodeZero is the zero value
\* of the field in an Error built without it.
CodeUnknown == "unknown"
CodeUnavailable == "unavailable"
CodeZero == "code_0"

\* The type name ParseError looks for among the details.
ErrorDetailType == "v1.ErrorDetail"

\* A map[string]string: nil, or its entries.
NilMap == [nil |-> TRUE, entries |-> {}]
EmptyMap == [nil |-> FALSE, entries |-> {}]

\* IsCategory with the whole of 4xx counted as notfound.
IsCategory_NotFoundWhole4xx(e, cat) ==
    LET c == e.Code
    IN  CASE cat = "auth"       -> c >= 100 /\ c < 200
          [] cat = "authz"      -> c >= 200 /\ c < 300
          [] cat = "validation" -> c >= 300 /\ c < 400
          [] cat = "notfound"   -> c >= 400 /\ c < 500
          [] cat = "domain"     -> c >= 500 /\ c < 600
          [] cat = "ratelimit"  -> c >= 600 /\ c < 700
          [] cat = "internal"   -> c >= 900
          [] OTHER              -> FALSE

\* Error.IsCategory: the switch on the category name.
IsCategory(e, cat) ==
    LET c == e.Code
    IN  CASE cat = "auth"       -> c >= 100 /\ c < 200
          [] cat = "authz"      -> c >= 200 /\ c < 300
          [] cat = "validation" -> c >= 300 /\ c < 400
          [] cat = "notfound"   -> c >= 400 /\ c < 410
          [] cat = "domain"     -> c >= 500 /\ c < 600
          [] cat = "ratelimit"  -> c >= 600 /\ c < 700
          [] cat = "internal"   -> c >= 900
          [] OTHER              -> FALSE

\* The loop over the details taking the envelope's message even when empty.
RECURSIVE FromDetails_AlwaysOverride(_, _)
FromDetails_AlwaysOverride(e, details) ==
    IF details = <<>>
    THEN e
    ELSE LET d == Head(details)
         IN  IF d.type # ErrorDetailType \/ d.value = "fails"
             THEN FromDetails_AlwaysOverride(e, Tail(details))
             ELSE IF d.value = "nogetters"
                  THEN e
                  ELSE [e EXCEPT
                          !.Code = d.code,
                          !.Message = d.message,
                          !.Field = d.field,
                          !.Metadata = IF ~d.metadata.nil THEN d.metadata ELSE @]

\* ParseError's loop over connectErr.Details(): a detail of another type is
\* passed over; one of type v1.ErrorDetail whose Value() fails is passed
\* over too; the first whose Value() succeeds ends the loop, and gives the
\* code, the message when not empty, the field and the metadata when not
\* nil, provided the message has the four getters.
RECURSIVE FromDetails(_, _)
FromDetails(e, details) ==
    IF details = <<>>
    THEN e
    ELSE LET d == Head(details)
         IN  IF d.type # ErrorDetailType \/ d.value = "fails"
             THEN FromDetails(e, Tail(details))
             ELSE IF d.value = "nogetters"
                  THEN e
                  ELSE [e EXCEPT
                          !.Code = d.code,
                          !.Message = IF d.message # "" THEN d.message ELSE @,
                          !.Field = d.field,
                          !.Metadata = IF ~d.metadata.nil THEN d.metadata ELSE @]

\* ParseError: nil for nil; the wrapper with CodeUnknown around err.Error()
\* for an error errors.As finds no *connect.Error in; else the Connect
\* error's message and code, with what its details give.
ParseError(error) ==
    IF error.kind = "nil"
    THEN [kind |-> "nil"]
    ELSE IF error.kind # "connect"
         THEN [kind |-> "error", Code |-> ErrCodeUnspecified,
               Message |-> error.text, Field |-> "", Metadata |-> NilMap,
               ConnectCode |-> CodeUnknown]
         ELSE FromDetails([kind |-> "error", Code |-> ErrCodeUnspecified,
                           Message |-> error.message, Field |-> "",
                           Metadata |-> EmptyMap, ConnectCode |-> error.code],
                          error.details)

\* The messages of the errors drawn.
Messages == {"", "down"}

\* The service's ErrorDetail messages drawn.
Envelopes ==
    [type : {ErrorDetailType}, value : {"ok"}, code : {501, 300},
     message : {"", "domain not verified"}, field : {"", "from"},
     metadata : {NilMap, [nil |-> FALSE, entries |-> {<<"domain", "x.io">>}]}]

\* Details ParseError cannot use: one of another type, one whose Value()
\* fails, one whose message lacks the getters.
OtherDetails ==
    {[type |-> t, value |-> v, code |-> 300, message |-> "other",
      field |-> "other", metadata |-> EmptyMap] :
        <<t, v>> \in {<<"other.Detail", "ok">>, <<ErrorDetailType, "fails">>,
                      <<ErrorDetailType, "nogetters">>}}

DetailLists ==
    UNION {[1..n -> Envelopes \cup OtherDetails] : n \in 0..MaxDetails}

\* The errors handed to ParseError: nil, errors that are no Connect error
\* (text is what their Error() returns), and errors errors.As finds a
\* *connect.Error in, with its Code(), Message() and Details().
InputErrors ==
    {[kind |-> "nil"]}
      \cup {[kind |-> "plain", text |-> m] : m \in Messages}
      \cup {[kind |-> "connect", code |-> c, message |-> m, details |-> ds] :
               c \in {CodeUnknown, CodeUnavailable}, m \in Messages,
               ds \in DetailLists}

\* The error codes IsCategory is applied to directly.
Codes == (-1..MaxCode) \cup {MinInt32, MaxInt32}

\* The *Error values a caller holds without ParseError, such as the one
\* dispatchEvent builds.
HeldErrors ==
    {[kind |-> "error", Code |-> c, Message |-> "", Field |-> "",
      Metadata |-> NilMap, ConnectCode |-> CodeZero] : c \in Codes}

\* The category names handed to IsCategory: the seven declared, and names
\* that are none of them.
CategoryNames ==
    {"auth", "authz", "validation", "notfound", "domain", "ratelimit",
     "internal", "attachment", ""}

ErrInit ==
    /\ \E r \in BackoffRuns : InitOf(r)
    /\ \/ errPc = "given" /\ perr \in InputErrors /\ parsed = NoError
       \/ errPc = "held" /\ perr = NoError /\ parsed \in HeldErrors
    /\ category = ""
    /\ isCat = FALSE

\* The caller calls ParseError(err).
ParseErrorCall ==
    /\ errPc = "given"
    /\ parsed' = ParseError(perr)
    /\ errPc' = "parsed"
    /\ UNCHANGED <<perr, category, isCat, streamVars>>

\* The caller calls e.IsCategory(category) on the *Error it holds.
IsCategoryCall ==
    /\ errPc \in {"parsed", "held"}
    /\ parsed.kind = "error"
    /\ \E cat \in CategoryNames :
          /\ category' = cat
          /\ isCat' = IsCategory(parsed, cat)
    /\ errPc' = "checked"
    /\ UNCHANGED <<perr, parsed, streamVars>>

ErrNext == ParseErrorCall \/ IsCategoryCall

ErrSpec == ErrInit /\ [][ErrNext]_vars

\* ---------------------------------------------------------------- claims
RECURSIVE Pow(_, _)
Pow(b, n) == IF n <= 0 THEN 1 ELSE b * Pow(b, n - 1)

\* The places of the OnError calls among the callbacks dispatchEvent invoked.
OnErrorCalls(cs) == {i \in 1..Len(cs) : cs[i].cb = "OnError"}

\* C1: a panic of the callback dispatchEvent invoked never leaves
\* dispatchEvent (the goroutine never crashes); after such a dispatch the
\* session is still open and without error, the loop going on to the
\* acknowledgment and the next Receive; and OnError was called for it exactly
\* once when set (never when unset), with code ErrCodeInternal.
C1_HandlerFailureIsolation ==
    /\ pc # "crashed"
    /\ (panicked =>
          /\ dispatched
          /\ pc \in {"ack", "recv"}
          /\ streamOpen
          /\ err = "nil"
          /\ Cardinality(OnErrorCalls(calls)) = IF handlers.OnError THEN 1 ELSE 0
          /\ \A i \in OnErrorCalls(calls) : calls[i].code = ErrCodeInternal)

\* C1's case: a handler panicked, OnError reported it, and the loop is back
\* at Receive with events still to come.
C1_Witness ==
    /\ panicked
    /\ pc = "recv"
    /\ handlers.OnError
    /\ calls[Len(calls)] = [cb |-> "OnError", code |-> 900]
    /\ eventsLeft > 0

\* C2: the delay slept at the n-th backoff sleep is
\* min(initialDelay * 2^(n-1), maxDelay), whatever the sessions before it
\* were; between sleeps currentDelay is already the delay of the next one,
\* so no session resets it.
C2_BackoffSchedule ==
    /\ (pc = "sleep" =>
          currentDelay = Min(initialDelay * Pow(2, retries - 1), maxDelay))
    /\ (pc \in {"top", "open", "recv", "check", "dispatch", "ack", "post",
                "report", "flush"} =>
          currentDelay = Min(initialDelay * Pow(2, retries), maxDelay))

\* C2's case: the seventh sleep, at the cap, after sessions that delivered
\* every event of the run.
C2_Witness ==
    /\ pc = "sleep"
    /\ retries = 7
    /\ currentDelay = 30
    /\ eventsLeft = 0

\* C3 as stated: no StreamEvents call is started once the context is done.
C3_NoOpenAfterCancel == opensAfterCancel = 0

\* C3 amended: a loop-top check that runs with the context done never goes
\* on to StreamEvents, and at most one StreamEvents call is started after
\* the cancellation (the one whose loop-top check had passed before it).
C3_NoOpenOnceCancelObserved ==
    /\ [](opensAfterCancel <= 1)
    /\ [][(cancelled /\ pc = "top") => pc' # "open"]_vars

\* C3's case: a session was opened after the cancellation and the loop has
\* terminated.
C3_Witness == opensAfterCancel = 1 /\ pc = "done"

\* C4: when the loop has terminated, through whichever checkpoint, the
\* pending list is empty and every identifier ever queued has been handed to
\* an AckEvents request; at no time is a queued identifier in neither.
C4_FlushOnShutdown ==
    /\ queuedIds = Range(acked) \cup Range(pendingAcks)
    /\ (pc = "done" => pendingAcks = <<>> /\ queuedIds \subseteq Range(acked))

\* C4's case: the loop terminated at a checkpoint whose flush sent the
\* identifiers that were pending.
C4_Witness == pc = "done" /\ cancelled /\ sent # <<>>

\* C5: the queueAck call that finds ackBatchSize - 1 identifiers pending
\* starts one AckEvents request with those and its own identifier, in queue
\* order, and leaves the list empty; a queueAck call that finds fewer
\* pending starts no request.
C5_SizeTriggeredFlush ==
    [][(pc = "ack" /\ pc' = "recv" /\ ShouldAck(handlers, cur)) =>
          IF Len(pendingAcks) = ackBatchSize - 1
          THEN /\ sent' = Append(pendingAcks, cur.id)
               /\ Len(sent') = 10
               /\ pendingAcks' = <<>>
               /\ acked' = acked \o sent'
          ELSE /\ sent' = <<>>
               /\ pendingAcks' = Append(pendingAcks, cur.id)
               /\ acked' = acked]_vars

\* C5's case: the loop is back at Receive and the queueAck just made sent a
\* full batch.
C5_Witness == pc = "recv" /\ Len(sent) = ackBatchSize /\ pendingAcks = <<>>

\* C6: whenever identifiers are pending, then even if no further event
\* arrives, no session ends and nobody cancels, the flush timer fires and
\* its callback hands every identifier queued so far to an AckEvents
\* request, leaving the list empty.
C6_TimeTriggeredFlush ==
    (pendingAcks # <<>>) ~>
        (pendingAcks = <<>> /\ queuedIds \subseteq Range(acked))

\* C6's case: the loop waits in Receive and the timer's callback has just
\* sent a batch smaller than ackBatchSize.
C6_Witness ==
    /\ pc = "recv"
    /\ ~cancelled
    /\ sent # <<>>
    /\ Len(sent) < ackBatchSize
    /\ pendingAcks = <<>>

\* Every identifier the batcher has seen: queued, pending or sent.
BatcherIds == queuedIds \cup Range(pendingAcks) \cup Range(acked)

\* C7: for a heartbeat, whatever its identifier and payload and whatever the
\* mode, the loop calls no callback (OnError included), does not run
\* dispatchEvent, and its identifier is never queued, pending or sent; no
\* heartbeat's identifier (they are the negative ones) is ever in the batcher.
C7_HeartbeatsSkipped ==
    /\ (cur.type = "heartbeat" =>
          /\ pc \in {"check", "recv"}
          /\ ~dispatched
          /\ calls = <<>>
          /\ (cur.id # 0 => cur.id \notin BatcherIds))
    /\ \A i \in BatcherIds : i >= 0

\* C7's case: a heartbeat with an identifier and a payload whose handler is
\* set was received in auto mode, and the loop is back at Receive.
C7_Witness ==
    /\ pc = "recv"
    /\ cur.type = "heartbeat"
    /\ cur.id # 0
    /\ HandlerFor(cur.payload) \in handlers.set
    /\ handlers.OnError
    /\ handlers.AckMode = AckModeAuto

\* C8: the empty identifier (0 here) is never queued, pending or sent; and a
\* business event with the empty identifier that the loop's body has handled
\* (its context check found the context not done) has been dispatched.
C8_EmptyIdDispatchedNotAcked ==
    /\ 0 \notin BatcherIds
    /\ (cur.type = "event" /\ cur.id = 0 /\ pc \in {"ack", "recv"} =>
          dispatched)

\* C8's case: in auto mode an event with the empty identifier was dispatched
\* to its handler and the loop is back at Receive with nothing queued.
C8_Witness ==
    /\ pc = "recv"
    /\ cur.type = "event"
    /\ cur.id = 0
    /\ dispatched
    /\ calls # <<>>
    /\ handlers.AckMode = AckModeAuto
    /\ queuedIds = {}
    /\ pendingAcks = <<>>

\* C9: an identifier is queued only by the step after the dispatch of its
\* own event has returned, and only when the caller's AckMode is auto or
\* left empty, in which case every non-empty identifier is queued; with
\* AckMode manual nothing is ever queued, no timer is scheduled and no
\* AckEvents request is sent.
C9_AckAfterHandlingAutoOnly ==
    /\ [](args.AckMode = AckModeManual =>
            /\ BatcherIds = {}
            /\ sent = <<>>
            /\ ackTimer = "nil"
            /\ ~timerArmed)
    /\ [][queuedIds' # queuedIds =>
            /\ pc = "ack"
            /\ dispatched
            /\ args.AckMode \in {"", "auto"}
            /\ queuedIds' = queuedIds \cup {cur.id}]_vars
    /\ [][(pc = "ack" /\ pc' = "recv" /\ cur.id # 0
             /\ args.AckMode \in {"", "auto"}) =>
            (cur.id \notin queuedIds /\ cur.id \in queuedIds')]_vars

\* C9's case: AckMode was left empty and an identifier was queued after its
\* event's dispatch.
C9_Witness ==
    /\ args.AckMode = ""
    /\ pc = "recv"
    /\ dispatched
    /\ cur.id \in queuedIds

\* The handler the specification gives each payload variant.
Routing ==
    {<<"EmailSent", "OnSent">>, <<"EmailDelivered", "OnDelivered">>,
     <<"EmailBounced", "OnBounced">>, <<"EmailComplained", "OnComplained">>,
     <<"EmailRejected", "OnRejected">>, <<"EmailDelayed", "OnDelayed">>,
     <<"EmailReplied", "OnReplied">>, <<"EmailFailed", "OnFailed">>}

\* The places of the variant callbacks among the callbacks invoked.
VariantCalls(cs) == {i \in 1..Len(cs) : cs[i].cb \in VariantHandlers}

\* C10: dispatchEvent invokes at most one variant callback, the one of the
\* event's payload variant, with that payload, and does invoke it when it is
\* set; for an unknown or absent payload or an unset callback it invokes
\* nothing, OnError included; OnError is invoked only for a panic.
C10_DispatchRouting ==
    dispatched =>
        /\ Cardinality(VariantCalls(calls)) <= 1
        /\ \A i \in VariantCalls(calls) :
              /\ <<cur.payload, calls[i].cb>> \in Routing
              /\ calls[i].cb \in handlers.set
              /\ calls[i].payload = cur.payload
              /\ i = 1
        /\ ((\E h \in handlers.set : <<cur.payload, h>> \in Routing)
              => VariantCalls(calls) # {})
        /\ (VariantCalls(calls) = {} => calls = <<>>)
        /\ (~panicked => OnErrorCalls(calls) = {})

\* C10's case: with every handler set, an EmailBounced event reached
\* OnBounced and nothing else.
C10_Witness ==
    /\ dispatched
    /\ handlers.set = VariantHandlers
    /\ cur.payload = "EmailBounced"
    /\ calls = <<[cb |-> "OnBounced", payload |-> "EmailBounced"]>>

\* A sequence of identifiers in the order the server numbered them.
IsIncreasing(s) == \A i, j \in 1..Len(s) : i < j => s[i] < s[j]

\* C11: within a session the events are dispatched one at a time in the
\* order Receive delivered them: the event a dispatch handles is the one
\* delivered last (its identifier is the server's latest) and not yet
\* dispatched, and the next event is received only after the dispatch of
\* the business event before it has returned; and the identifiers enter the
\* pending list in that order: the requests sent so far followed by the
\* pending list are in the order of delivery.
C11_InOrderDispatch ==
    /\ [](IsIncreasing(acked \o pendingAcks))
    /\ [][(pc = "dispatch" /\ pc' # "dispatch") =>
            /\ ~dispatched
            /\ cur' = cur
            /\ (cur.id > 0 => cur.id = nextId - 1)]_vars
    /\ [][(pc = "recv" /\ pc' = "check") =>
            /\ (cur.type = "event" => dispatched)
            /\ (cur'.id > 0 => cur'.id = nextId /\ nextId' = nextId + 1)]_vars
    /\ [][pendingAcks' # pendingAcks /\ pendingAcks' # <<>> =>
            /\ pc = "ack"
            /\ dispatched
            /\ pendingAcks' = Append(pendingAcks, cur.id)]_vars

\* C11's case: three events of one session were dispatched in turn; the
\* first went out in a request of its own and the next two are pending in
\* the order received.
C11_Witness ==
    /\ pc = "recv"
    /\ streamOpen
    /\ dispatched
    /\ retries = 0
    /\ acked = <<1>>
    /\ pendingAcks = <<2, 3>>
    /\ cur.id = 3

\* C12: the loop stops only when the context has been cancelled: whatever
\* the opens, receives, acknowledgments and callbacks did, run() has
\* returned or its goroutine has ended only if the context is done; and
\* while the context is not done the backoff sleep is followed by the top of
\* the loop and the top of the loop by another StreamEvents call.
C12_OnlyCancellationStops ==
    /\ [](pc \in {"done", "crashed"} => cancelled)
    /\ [][(pc = "sleep" /\ ~cancelled /\ pc' # pc) => pc' = "top"]_vars
    /\ [][(pc = "top" /\ ~cancelled /\ pc' # pc) => pc' = "open"]_vars

\* The categories with the first and the last code of their ranges: [100,
\* 200) is 100..199, and internal, [900, inf), ends with the last int32.
CategoryRanges ==
    {<<"auth", 100, 199>>, <<"authz", 200, 299>>, <<"validation", 300, 399>>,
     <<"notfound", 400, 409>>, <<"domain", 500, 599>>,
     <<"ratelimit", 600, 699>>, <<"internal", 900, MaxInt32>>}

InCategory(c, name) ==
    \E r \in CategoryRanges : r[1] = name /\ r[2] <= c /\ c <= r[3]

\* The codes in none of the ranges.
InGap(c) ==
    c < 100 \/ (c >= 410 /\ c < 500) \/ (c >= 700 /\ c < 900)

\* C13: IsCategory(name) on an error of code c is true exactly when c lies
\* in the range of the category of that name; so c is in at most one
\* category, a code in a gap (below 100, 410-499, 700-899) is in none, and a
\* name that is no category gives false.
C13_CategoryRanges ==
    errPc = "checked" =>
        /\ isCat = InCategory(parsed.Code, category)
        /\ Cardinality({n \in CategoryNames : IsCategory(parsed, n)}) <= 1
        /\ (InGap(parsed.Code) => ~isCat)
        /\ (category \in {"attachment", ""} => ~isCat)

\* C13's case: IsCategory("notfound") was asked of code 450 and said no.
C13_Witness ==
    /\ errPc = "checked"
    /\ parsed.Code = 450
    /\ category = "notfound"
    /\ ~isCat

\* The details of type v1.ErrorDetail whose value can be extracted.
Usable(ds) ==
    {i \in 1..Len(ds) : ds[i].type = ErrorDetailType /\ ds[i].value # "fails"}

FirstUsable(ds) == CHOOSE i \in Usable(ds) : \A j \in Usable(ds) : i <= j

\* The error carries the service's envelope: it is a Connect error and the
\* first of its v1.ErrorDetail details that can be extracted is the
\* service's message.
HasEnvelope(error) ==
    /\ error.kind = "connect"
    /\ Usable(error.details) # {}
    /\ error.details[FirstUsable(error.details)].value = "ok"

EnvelopeOf(error) == error.details[FirstUsable(error.details)]

\* What the claim says of an error with the envelope: code, field and
\* metadata are the envelope's, and the message is the envelope's when that
\* is not empty, else the transport's.
FromEnvelope(error, e) ==
    LET env == EnvelopeOf(error)
    IN  /\ e.kind = "error"
        /\ e.Code = env.code
        /\ e.Field = env.field
        /\ e.Metadata.entries = env.metadata.entries
        /\ e.Message = IF env.message # "" THEN env.message ELSE error.message

\* The message the error itself carries.
RawMessage(error) ==
    IF error.kind = "connect" THEN error.message ELSE error.text

\* An envelope of code 501 is of category domain and not validation.
DomainNotValidation ==
    (errPc = "checked" /\ perr.kind # "none" /\ HasEnvelope(perr)
       /\ EnvelopeOf(perr).code = 501) =>
        /\ (category = "domain" => isCat)
        /\ (category = "validation" => ~isCat)

\* C14 as stated: ParseError(nil) is nil; for every other error without the
\* envelope the result has code 0, the unknown transport status and the
\* error's raw message; with the envelope, code, field and metadata are the
\* envelope's and the message is overridden only by a non-empty one; an
\* envelope of code 501 is of category domain and not validation.
C14_ParseErrorAsStated ==
    /\ (errPc \in {"parsed", "checked"} /\ perr.kind # "none") =>
          /\ (perr.kind = "nil" => parsed.kind = "nil")
          /\ (perr.kind # "nil" /\ ~HasEnvelope(perr) =>
                /\ parsed.kind = "error"
                /\ parsed.Code = 0
                /\ parsed.ConnectCode = CodeUnknown
                /\ parsed.Message = RawMessage(perr))
          /\ (HasEnvelope(perr) => FromEnvelope(perr, parsed))
    /\ DomainNotValidation

\* C14 amended: ParseError(nil) is nil; for an error that is no Connect
\* error the result has code 0, the unknown transport status and the error's
\* raw message; for a Connect error the result has the Connect error's own
\* status, and without the envelope code 0 and the Connect error's message,
\* with the envelope the envelope's code, field and metadata and the message
\* overridden only by a non-empty one; an envelope of code 501 is of
\* category domain and not validation.
C14_ParseErrorClassification ==
    /\ (errPc \in {"parsed", "checked"} /\ perr.kind # "none") =>
          /\ (perr.kind = "nil" => parsed.kind = "nil")
          /\ (perr.kind = "plain" =>
                /\ parsed.kind = "error"
                /\ parsed.Code = 0
                /\ parsed.ConnectCode = CodeUnknown
                /\ parsed.Message = perr.text
                /\ parsed.Field = ""
                /\ parsed.Metadata.entries = {})
          /\ (perr.kind = "connect" =>
                /\ parsed.kind = "error"
                /\ parsed.ConnectCode = perr.code)
          /\ (perr.kind = "connect" /\ ~HasEnvelope(perr) =>
                /\ parsed.Code = 0
                /\ parsed.Message = perr.message
                /\ parsed.Field = ""
                /\ parsed.Metadata.entries = {})
          /\ (HasEnvelope(perr) => FromEnvelope(perr, parsed))
    /\ DomainNotValidation

\* C14's case: a Connect error of status unavailable whose first detail
\* cannot be extracted and whose second is an envelope of code 501 with an
\* empty message: the result keeps the status and the transport's message,
\* and is of category domain.
C14_Witness ==
    /\ errPc = "checked"
    /\ perr.kind = "connect"
    /\ perr.code = CodeUnavailable
    /\ Len(perr.details) = 2
    /\ perr.details[1].value = "fails"
    /\ HasEnvelope(perr)
    /\ EnvelopeOf(perr).message = ""
    /\ parsed.Code = 501
    /\ parsed.Message = "down"
    /\ parsed.ConnectCode = CodeUnavailable
    /\ category = "domain"
    /\ isCat

\* The places of the reports of a session's error among the callbacks invoked.
SessionReports(cs) == {i \in 1..Len(cs) : "err" \in DOMAIN cs[i]}

\* The callbacks the loop is to invoke for a session that returned e.
ReportOf(e, h) ==
    IF e # "nil" /\ h.OnError THEN <<[cb |-> "OnError", err |-> e]>> ELSE <<>>

\* C15: after a session the loop, unless its post-session check finds the
\* context done, calls OnError exactly once with the error the session
\* returned when that is not nil and OnError is set, and calls nothing
\* otherwise; the call comes before the flush and the sleep (no request is
\* sent and no sleep started by then); a post-session check that finds the
\* context done ends the loop without a call; and no other step reports a
\* session's error.
C15_SessionErrorReporting ==
    /\ [](pc \in {"flush", "sleep"} => calls = ReportOf(err, handlers))
    /\ [](pc = "report" => err # "ctx")
    /\ [][(pc = "post" /\ pc' # pc) =>
            /\ calls' = calls
            /\ pc' = IF cancelled THEN "done" ELSE "report"]_vars
    /\ [][(pc = "report" /\ pc' # pc) =>
            /\ calls' = ReportOf(err, handlers)
            /\ pc' \in {"flush", "crashed"}
            /\ sent' = <<>>
            /\ pendingAcks' = pendingAcks
            /\ retries' = retries]_vars
    /\ [][(calls' # calls /\ SessionReports(calls') # {}) => pc = "report"]_vars
    /\ [][(pc = "flush" /\ pc' # pc) => pc' = "sleep" /\ calls' = calls]_vars

\* C15's case: a session delivered an event and ended with a receive error;
\* OnError was called with it, then the flush sent the pending identifier
\* and the backoff sleep began.
C15_Witness ==
    /\ pc = "sleep"
    /\ ~cancelled
    /\ err = "recv"
    /\ calls = <<[cb |-> "OnError", err |-> "recv"]>>
    /\ sent = <<1>>

\* How often an identifier occurs in a sequence.
Occurrences(s, id) == Cardinality({i \in 1..Len(s) : s[i] = id})

\* C16: whichever way queueAck, the timer's callback (also one that fired
\* before a later flush and runs after it) and flushAcks interleave, every
\* identifier handed to queueAck is, at any time, either pending once or in
\* exactly one request once, never both and never neither; every request
\* carries the whole pending list of its moment in queue order (with the
\* identifier queueAck has just appended) and leaves the list empty; and a
\* step without a request leaves the list alone or appends to it.
C16_NoIdLostOrDuplicated ==
    /\ [](\A id \in queuedIds : Occurrences(acked \o pendingAcks, id) = 1)
    /\ [](Range(acked \o pendingAcks) \subseteq queuedIds)
    /\ [][sent' # <<>> =>
            /\ \/ sent' = pendingAcks
               \/ pc = "ack" /\ sent' = Append(pendingAcks, cur.id)
            /\ pendingAcks' = <<>>
            /\ acked' = acked \o sent']_vars
    /\ [][sent' = <<>> =>
            /\ acked' = acked
            /\ \/ pendingAcks' = pendingAcks
               \/ pc = "ack" /\ pendingAcks' = Append(pendingAcks, cur.id)]_vars

\* C16's case: a timer callback that fired is still waiting for the mutex
\* while a full batch has gone out, a later identifier is pending and a new
\* timer is scheduled for it.
C16_Witness ==
    /\ firedCb > 0
    /\ timerArmed
    /\ Len(acked) = ackBatchSize
    /\ pendingAcks = <<11>>

\* The AckEvents calls that returned an error or ran into their timeout.
FailedCalls == {r \in ackLog : r.outcome # "ok"}

\* C17: the identifiers of an AckEvents call that failed or timed out are
\* not pending again and are in no other request; the return of a call,
\* whatever its outcome, changes nothing of the streamer: no identifier is
\* queued or sent, no callback (OnError included) is called, the loop stays
\* where it is with its session, its error and its delay; and cancelling the
\* context leaves the calls under way as they are, to return as they will.
C17_AckFailuresNotFatal ==
    /\ [](\A r \in FailedCalls : \A i \in 1..Len(r.ids) :
            /\ r.ids[i] \notin Range(pendingAcks)
            /\ Occurrences(acked, r.ids[i]) = 1)
    /\ [][ackLog' # ackLog =>
            /\ sent' = <<>>
            /\ UNCHANGED <<pendingAcks, acked, queuedIds, ackTimer, timerArmed,
                           calls, pc, err, streamOpen, cur, currentDelay,
                           retries, cancelled>>]_vars
    /\ [][cancelled' # cancelled =>
            UNCHANGED <<inFlight, ackLog, pendingAcks, acked>>]_vars

\* C17's case: in one session, never restarted, the call with the first
\* identifier ran into its timeout before the cancellation, and the call
\* with the second, started by the flush at shutdown, succeeded after it.
C17_Witness ==
    /\ pc = "done"
    /\ retries = 0
    /\ [ids |-> <<1>>, outcome |-> "timeout", afterCancel |-> FALSE] \in ackLog
    /\ [ids |-> <<2>>, outcome |-> "ok", afterCancel |-> TRUE] \in ackLog
    /\ acked = <<1, 2>>
    /\ pendingAcks = <<>>

\* C18: an event whose callback panicked is handled from there on like one
\* whose callback returned: the loop goes on to the auto-ack with the session
\* open and without error, and in auto mode the event's identifier, when not
\* empty, is queued (pending or in a request) by the time the loop is back at
\* Receive.
C18_FailingHandlerStillAcked ==
    panicked =>
        /\ pc \in {"ack", "recv"}
        /\ streamOpen
        /\ err = "nil"
        /\ (pc = "recv" /\ handlers.AckMode = AckModeAuto /\ cur.id # 0 =>
              Occurrences(acked \o pendingAcks, cur.id) = 1)

\* Where the goroutine stands inside a session with a stream.
InSession == pc \in {"recv", "check", "dispatch", "ack"}

\* C19: a stream is open exactly while the session that opened it runs: it
\* is opened only by a StreamEvents call that succeeds, when none is open,
\* and is closed by the step on which stream() returns, whether the stream
\* was exhausted, Receive failed, the context was found done or a panic
\* unwound it; so none is open between sessions nor after the loop has
\* ended. A StreamEvents call that fails opens nothing.
C19_ConnectionRelease ==
    /\ [](streamOpen = InSession)
    /\ [](pc \in {"done", "crashed"} => ~streamOpen)
    /\ [][(~streamOpen /\ streamOpen') => (pc = "open" /\ pc' = "recv")]_vars
    /\ [][(streamOpen /\ ~streamOpen') =>
            /\ pc \in {"recv", "check", "dispatch"}
            /\ pc' \in {"post", "crashed"}]_vars
    /\ [][(InSession /\ pc' \in {"post", "crashed"}) =>
            (streamOpen /\ ~streamOpen')]_vars
    /\ [][(pc = "open" /\ pc' = "post") =>
            (~streamOpen /\ ~streamOpen' /\ err' = "open")]_vars

\* C19's case: the session found the context done inside the receive loop,
\* closed its stream on returning, and the loop has ended.
C19_Witness ==
    /\ pc = "done"
    /\ err = "ctx"
    /\ ~streamOpen
    /\ nextId > 1

\* The backoff select taking its ctx.Done() case.
SleepInterrupted == RunSleep /\ pc' = "done"

\* C20: once the context is done, wherever the loop OnReceive started then
\* stands, run() eventually returns; and a loop in its backoff sleep with
\* the context done can return at once, without the sleep running out, and
\* returns from the sleep only so.
C20_TerminationAfterCancel ==
    /\ (cancelled /\ pc # "start") ~> (pc = "done")
    /\ [](pc = "sleep" /\ cancelled => ENABLED SleepInterrupted)
    /\ [][(pc = "sleep" /\ pc' = "done") => cancelled]_vars

\* C20's case: the context was cancelled during the third backoff sleep and
\* run() returned from it: the delay is still the 4 s of that sleep.
C20_Witness ==
    /\ pc = "done"
    /\ cancelled
    /\ retries = 3
    /\ currentDelay = 4

\* ---------------------------------------------------------------- C21
\* C21: whenever pendingAcksMu is free, ackTimer is set exactly when
\* pendingAcks is non-empty, pendingAcks holds fewer than ackBatchSize
\* identifiers, the only timer that is neither stopped nor fired is the one
\* in ackTimer, so that there is at most one, and a non-empty pendingAcks
\* has a flush scheduled or a fired callback waiting for the mutex. Every
\* step of the batcher holds the mutex from its start to its end, so the
\* mutex is free in every state.
C21_TimerPendingInvariant ==
    /\ (ackTimer = "set") <=> (pendingAcks # <<>>)
    /\ Len(pendingAcks) < ackBatchSize
    /\ timerArmed => ackTimer = "set"
    /\ pendingAcks # <<>> => timerArmed \/ firedCb > 0

\* After a flush by size, the callback of the timer that had fired before
\* it still waits while a new identifier has scheduled a new timer.
C21_Witness ==
    /\ pendingAcks # <<>>
    /\ Len(acked) = ackBatchSize
    /\ timerArmed
    /\ firedCb > 0

\* ---------------------------------------------------------------- C22
\* The steps that call flushAcks or, from the timer, flushAcksLocked.
FlushStep ==
    \/ RunTop /\ cancelled
    \/ RunPost /\ cancelled
    \/ RunFlush
    \/ TimerCallback

\* C22: every AckEvents call the streamer starts carries at least 1 and at
\* most ackBatchSize identifiers, and they are the ones added to what the
\* transport has been sent; a flush by run(), at shutdown or before the
\* backoff, or by the timer's callback that finds pendingAcks empty starts
\* no call and leaves pendingAcks, ackTimer and the scheduled timer as they
\* were.
C22_AckCallSize ==
    /\ [](started => Len(sent) >= 1 /\ Len(sent) <= ackBatchSize)
    /\ [][started' => acked' = acked \o sent']_vars
    /\ [][pendingAcks = <<>> /\ FlushStep =>
            /\ ~started'
            /\ sent' = <<>>
            /\ UNCHANGED <<pendingAcks, ackTimer, timerArmed, acked, inFlight>>]_vars

\* run() has returned after the flush at shutdown found the list empty: the
\* one call of the run carried a full batch, sent by queueAck.
C22_Witness ==
    /\ pc = "done"
    /\ ~started
    /\ pendingAcks = <<>>
    /\ Len(acked) = ackBatchSize
    /\ firedCb = 0
    /\ ~timerArmed

====
